---- MODULE Spec2Model ----
(***************************************************************************)
(* A model of minlambda: the hand-rolled HTTP/1.1 client (src/src/http.rs) *)
(* and the poll loop that drives it (src/src/lib.rs).                      *)
(*                                                                         *)
(* Three specifications share the module:                                  *)
(*   SpecCodec   ChunkedWriter and Body::read over a byte stream           *)
(*   SpecStatus  check_response_code over 12-byte response prefixes        *)
(*   Spec        run / run_inner / get / post / post_error, one exchange   *)
(*               step at a time                                            *)
(* A byte is a one-character string; BadByte stands for a byte >= 0x80     *)
(* that is not valid UTF-8 on its own.                                     *)
(***************************************************************************)
EXTENDS Naturals, Sequences, FiniteSets, TLC

VARIABLES
    \* ---- wire codec (http.rs: ChunkedWriter, Body)
    producer,    \* who fills the connection: "none", "writer" or "server"
    stream,      \* the bytes put on the connection so far
    payload,     \* the body bytes handed to the producer, concatenated
    nchunks,     \* chunk frames emitted so far (terminal frame excluded)
    zeroWrite,   \* a zero-byte ChunkedWriter::write has happened
    finished,    \* the producer is done and has closed its side
    pos,         \* Body.stream: bytes of `stream` consumed by the reader
    remaining,   \* Body.remaining
    chunked,     \* Body.chunked
    out,         \* bytes returned by Body::read so far, concatenated
    ret,         \* result of the last Body::read
    firstEnd,    \* how reading first ended: "none", "eos" or "err"
    \* ---- status line (http.rs: check_response_code)
    buf,         \* the response prefix offered to check_response_code
    status,      \* its result
    \* ---- poll loop (lib.rs: run, run_inner; http.rs: get, post, post_error)
    pc,          \* where run is: "setup", "get_connect", "get_send",
                 \* "get_status", "get_headers", "get_body", "handle",
                 \* "post_connect", "post_send", "post_status", "panic"
    env,         \* the value of AWS_LAMBDA_RUNTIME_API
    panicMsg,    \* the panic message, "" while running
    open,        \* connections open now
    reqs,        \* requests written on the open connection
    headers,     \* header lines of this cycle's GET response, as received
    scanned,     \* the header block of this cycle's GET has been read
    request_id,  \* get: Option<String>
    length,      \* get: Option<Option<usize>>
    event,       \* the decoded event get returned
    handlerRes,  \* what the handler returned in this cycle
    calls,       \* handler invocations in this cycle
    call,        \* the post / post_error call in progress
    posts,       \* the POST calls made in this cycle, in order
    getOk,       \* this cycle's get: "none", "ok" or "failed"
    innerErr,    \* inner_err of run, the error run_inner returned
    reportRes    \* result of this cycle's init/error POST

codecVars == <<producer, stream, payload, nchunks, zeroWrite, finished,
               pos, remaining, chunked, out, ret, firstEnd>>
statusVars == <<buf, status>>
loopVars == <<pc, env, panicMsg, open, reqs, headers, scanned, request_id,
              length, event, handlerRes, calls, call, posts, getOk, innerErr,
              reportRes>>
vars == <<codecVars, statusVars, loopVars>>

(***************************************************************************)
(* Bounds                                                                  *)
(***************************************************************************)
MaxChunks == 2     \* chunk frames per stream
MaxLen == 2        \* short chunk payloads have 1..MaxLen bytes
MaxBuf == 3        \* caller buffer sizes are 1..MaxBuf
MaxHeaders == 3    \* header lines per response
MaxCut == 3        \* a truncated response loses 1..MaxCut bytes at its end

(***************************************************************************)
(* Bytes and text helpers                                                  *)
(***************************************************************************)
CR == "\r"
LF == "\n"
BadByte == "#FF"
Radix == 16

Min(a, b) == IF a < b THEN a ELSE b

HexLower == <<"0", "1", "2", "3", "4", "5", "6", "7", "8", "9",
              "a", "b", "c", "d", "e", "f">>
HexUpper == <<"0", "1", "2", "3", "4", "5", "6", "7", "8", "9",
              "A", "B", "C", "D", "E", "F">>

\* char::to_digit(radix): the digit's value, or radix when c is no digit
ToDigit(c, radix) ==
    IF \E i \in 1..radix : HexLower[i] = c \/ HexUpper[i] = c
    THEN (CHOOSE i \in 1..radix : HexLower[i] = c \/ HexUpper[i] = c) - 1
    ELSE radix

\* format!("{:x}", n)
RECURSIVE FormatHex(_)
FormatHex(n) ==
    IF n < Radix THEN <<HexLower[n + 1]>>
    ELSE FormatHex(n \div Radix) \o <<HexLower[(n % Radix) + 1]>>

\* the same length as an upper-case, zero-padded hex number
FormatHexUpperPadded(n) ==
    LET lower == FormatHex(n)
    IN  <<"0">> \o [i \in 1..Len(lower) |-> HexUpper[ToDigit(lower[i], Radix) + 1]]

\* io::Result / Option results: Ok(v), Err(msg); NoResult before any call
Err(msg) == [ok |-> FALSE, val |-> 0, err |-> msg]
Ok(v) == [ok |-> TRUE, val |-> v, err |-> ""]
NoResult == [ok |-> FALSE, val |-> 0, err |-> "no call yet"]

RECURSIVE ParseDigits(_, _, _, _)
ParseDigits(s, radix, max, acc) ==
    IF s = <<>> THEN Ok(acc)
    ELSE LET d == ToDigit(Head(s), radix)
         IN  IF d = radix THEN Err("invalid digit")
             ELSE IF acc * radix + d > max THEN Err("overflow")
             ELSE ParseDigits(Tail(s), radix, max, acc * radix + d)

\* <unsigned>::from_str_radix: an optional '+', then one or more digits
FromStrRadix(s, radix, max) ==
    IF s = <<>> THEN Err("empty")
    ELSE LET digits == IF Head(s) = "+" THEN Tail(s) ELSE s
         IN  IF digits = <<>> THEN Err("invalid digit")
             ELSE ParseDigits(digits, radix, max, 0)

WhiteSpace == {" ", "\t", LF, CR}

\* str::trim
RECURSIVE Trim(_)
Trim(s) ==
    IF s = <<>> THEN s
    ELSE IF Head(s) \in WhiteSpace THEN Trim(Tail(s))
    ELSE IF s[Len(s)] \in WhiteSpace THEN Trim(SubSeq(s, 1, Len(s) - 1))
    ELSE s

\* BufRead::read_line / read_until(b'\n'): the bytes after offset p up to
\* and including the first LF, or up to the end of input
ReadUntilLF(bytes, p) ==
    LET lfs == {i \in (p + 1)..Len(bytes) : bytes[i] = LF}
    IN  IF lfs = {} THEN SubSeq(bytes, p + 1, Len(bytes))
        ELSE SubSeq(bytes, p + 1, CHOOSE i \in lfs : \A j \in lfs : i <= j)

\* usize::MAX as far as the model's 32-bit integers reach: usize is wider,
\* and no length the model parses has more than three digits
UsizeMax == 2147483647

(***************************************************************************)
(* ChunkedWriter (http.rs 171-195)                                         *)
(***************************************************************************)
\* write without the CRLF that closes the chunk
WriteFrameNoCRLF(b) == FormatHex(Len(b)) \o <<CR, LF>> \o b

\* ChunkedWriter::write: the frame emitted for one write call
WriteFrame(b) == FormatHex(Len(b)) \o <<CR, LF>> \o b \o <<CR, LF>>

\* ChunkedWriter::finish: the terminal frame
FinishFrame == <<"0", CR, LF, CR, LF>>

(***************************************************************************)
(* Body::read (http.rs 139-169)                                            *)
(* `k` is the number of bytes the connection has ready (1 or more): the    *)
(* inner read returns between 1 and the requested length, or 0 at end of   *)
(* input.                                                                  *)
(***************************************************************************)
StreamRead(bytes, p, len, k) == Min(Min(k, len), Len(bytes) - p)

\* the data read of a chunk that leaves the chunk's closing CRLF unread
BodyReadDataKeepsCRLF(bytes, p, rem, buflen, k) ==
    LET len == Min(buflen, rem)
        count == StreamRead(bytes, p, len, k)
    IN  [pos |-> p + count, remaining |-> rem - count, res |-> Ok(count),
         data |-> SubSeq(bytes, p + 1, p + count)]

BodyReadData(bytes, p, rem, buflen, k) ==
    LET len == Min(buflen, rem)
        count == StreamRead(bytes, p, len, k)
        left == rem - count
        p2 == p + count
        data == SubSeq(bytes, p + 1, p2)
    IN  IF left = 0
        THEN \* read out the CRLF
             IF Len(bytes) - p2 < 2
             THEN [pos |-> Len(bytes), remaining |-> left,
                   res |-> Err("failed to fill whole buffer"), data |-> <<>>]
             ELSE [pos |-> p2 + 2, remaining |-> left,
                   res |-> Ok(count), data |-> data]
        ELSE [pos |-> p2, remaining |-> left, res |-> Ok(count), data |-> data]

\* the fixed-length read that leaves the byte budget as it was
BodyReadFixedKeepsBudget(bytes, p, rem, buflen, k) ==
    IF rem = 0
    THEN [pos |-> p, remaining |-> rem, res |-> Ok(0), data |-> <<>>]
    ELSE LET len == Min(buflen, rem)
             count == StreamRead(bytes, p, len, k)
         IN  [pos |-> p + count, remaining |-> rem,
              res |-> Ok(count), data |-> SubSeq(bytes, p + 1, p + count)]

\* Body::read, lines 160-167: chunked is false
BodyReadFixed(bytes, p, rem, buflen, k) ==
    IF rem = 0
    THEN [pos |-> p, remaining |-> rem, res |-> Ok(0), data |-> <<>>]
    ELSE LET len == Min(buflen, rem)
             count == StreamRead(bytes, p, len, k)
         IN  [pos |-> p + count, remaining |-> rem - count,
              res |-> Ok(count), data |-> SubSeq(bytes, p + 1, p + count)]

BodyRead(bytes, p, rem, isChunked, buflen, k) ==
    IF isChunked
    THEN IF rem = 0
         THEN LET line == ReadUntilLF(bytes, p)
                  p1 == p + Len(line)
                  parsed == FromStrRadix(Trim(line), Radix, UsizeMax)
              IN  IF BadByte \in {line[i] : i \in 1..Len(line)}
                  THEN [pos |-> p1, remaining |-> rem,
                        res |-> Err("stream did not contain valid UTF-8"),
                        data |-> <<>>]
                  ELSE IF ~parsed.ok
                  THEN [pos |-> p1, remaining |-> rem,
                        res |-> Err("invalid chunk length"), data |-> <<>>]
                  ELSE IF parsed.val = 0
                  THEN [pos |-> p1, remaining |-> 0, res |-> Ok(0), data |-> <<>>]
                  ELSE BodyReadData(bytes, p1, parsed.val, buflen, k)
         ELSE BodyReadData(bytes, p, rem, buflen, k)
    ELSE BodyReadFixed(bytes, p, rem, buflen, k)

(***************************************************************************)
(* check_response_code (http.rs 108-126)                                   *)
(***************************************************************************)
StatusPrefix == <<"H", "T", "T", "P", "/", "1", ".", "1", " ">>

ErrorCodeLimit == 400

\* check_response_code with `status > 400`
CheckResponseCodeAbove(bytes) ==
    IF Len(bytes) < 12 THEN Err("failed to fill whole buffer")
    ELSE IF SubSeq(bytes, 1, 9) = StatusPrefix
    THEN LET digits == SubSeq(bytes, 10, 12)
             parsed == IF BadByte \in {digits[i] : i \in 1..3}
                       THEN Err("invalid utf-8")
                       ELSE FromStrRadix(digits, 10, 65535)
         IN  IF parsed.ok
             THEN IF parsed.val > ErrorCodeLimit
                  THEN Err("received HTTP error code " \o ToString(parsed.val))
                  ELSE Ok(0)
             ELSE Err("malformed HTTP response")
    ELSE Err("malformed HTTP response")

CheckResponseCode(bytes) ==
    IF Len(bytes) < 12 THEN Err("failed to fill whole buffer")
    ELSE IF SubSeq(bytes, 1, 9) = StatusPrefix
    THEN LET digits == SubSeq(bytes, 10, 12)
             parsed == IF BadByte \in {digits[i] : i \in 1..3}
                       THEN Err("invalid utf-8")
                       ELSE FromStrRadix(digits, 10, 65535)
         IN  IF parsed.ok
             THEN IF parsed.val >= ErrorCodeLimit
                  THEN Err("received HTTP error code " \o ToString(parsed.val))
                  ELSE Ok(0)
             ELSE Err("malformed HTTP response")
    ELSE Err("malformed HTTP response")

(***************************************************************************)
(* Header scan of get (http.rs 20-47, 128-131)                             *)
(***************************************************************************)
None == <<>>
Some(x) == <<x>>

UpperLetters == <<"A", "B", "C", "D", "E", "F", "G", "H", "I", "J", "K", "L", "M",
                  "N", "O", "P", "Q", "R", "S", "T", "U", "V", "W", "X", "Y", "Z">>
LowerLetters == <<"a", "b", "c", "d", "e", "f", "g", "h", "i", "j", "k", "l", "m",
                  "n", "o", "p", "q", "r", "s", "t", "u", "v", "w", "x", "y", "z">>

AsciiLower(c) ==
    IF \E i \in 1..26 : UpperLetters[i] = c
    THEN LowerLetters[CHOOSE i \in 1..26 : UpperLetters[i] = c]
    ELSE c

\* a comparison of header names that tells the letter cases apart
EqExactCase(a, b) == a = b

\* str::eq_ignore_ascii_case
EqIgnoreAsciiCase(a, b) ==
    /\ Len(a) = Len(b)
    /\ \A i \in 1..Len(a) : AsciiLower(a[i]) = AsciiLower(b[i])

RequestIdName ==
    <<"L", "a", "m", "b", "d", "a", "-", "R", "u", "n", "t", "i", "m", "e",
      "-", "A", "w", "s", "-", "R", "e", "q", "u", "e", "s", "t", "-", "I",
      "d">>

TransferEncodingName ==
    <<"T", "r", "a", "n", "s", "f", "e", "r", "-", "E", "n", "c", "o", "d",
      "i", "n", "g">>

ContentLengthName ==
    <<"C", "o", "n", "t", "e", "n", "t", "-", "L", "e", "n", "g", "t", "h">>

ChunkedValue ==
    <<"c", "h", "u", "n", "k", "e", "d">>

\* split_header: the name before the first ':' and the trimmed rest
SplitHeader(line) ==
    LET colons == {i \in 1..Len(line) : line[i] = ":"}
    IN  IF colons = {} THEN None
        ELSE LET c == CHOOSE i \in colons : \A j \in colons : i <= j
             IN  Some([name |-> SubSeq(line, 1, c - 1),
                       value |-> Trim(SubSeq(line, c + 1, Len(line)))])

NoHeaders == [request_id |-> None, length |-> None]

\* the loop body without the request_id.is_none() guard: the last
\* request-id header wins
HeaderStepLastWins(acc, line) ==
    LET h == IF BadByte \in {line[i] : i \in 1..Len(line)} THEN None
             ELSE SplitHeader(line)
    IN  IF h = None THEN acc
        ELSE LET name == h[1].name
                 value == h[1].value
                 len == FromStrRadix(value, 10, UsizeMax)
             IN  [request_id |->
                      IF EqIgnoreAsciiCase(name, RequestIdName)
                      THEN Some(value) ELSE acc.request_id,
                  length |->
                      IF acc.length # None THEN acc.length
                      ELSE IF EqIgnoreAsciiCase(name, TransferEncodingName)
                              /\ value = ChunkedValue
                      THEN Some(None)
                      ELSE IF EqIgnoreAsciiCase(name, ContentLengthName) /\ len.ok
                      THEN Some(Some(len.val))
                      ELSE acc.length]

\* one pass of the loop body, lines 31-44
HeaderStep(acc, line) ==
    LET h == IF BadByte \in {line[i] : i \in 1..Len(line)} THEN None
             ELSE SplitHeader(line)
    IN  IF h = None THEN acc
        ELSE LET name == h[1].name
                 value == h[1].value
                 len == FromStrRadix(value, 10, UsizeMax)
             IN  [request_id |->
                      IF acc.request_id = None
                         /\ EqIgnoreAsciiCase(name, RequestIdName)
                      THEN Some(value) ELSE acc.request_id,
                  length |->
                      IF acc.length # None THEN acc.length
                      ELSE IF EqIgnoreAsciiCase(name, TransferEncodingName)
                              /\ value = ChunkedValue
                      THEN Some(None)
                      ELSE IF EqIgnoreAsciiCase(name, ContentLengthName) /\ len.ok
                      THEN Some(Some(len.val))
                      ELSE acc.length]

\* the loop of lines 24-45 over the lines received, up to the blank line
RECURSIVE ScanHeaders(_, _)
ScanHeaders(lines, acc) ==
    IF lines = <<>> THEN acc
    ELSE IF Head(lines) = <<CR, LF>> THEN acc
    ELSE ScanHeaders(Tail(lines), HeaderStep(acc, Head(lines)))

LineRequestId1 ==
    <<"L", "a", "m", "b", "d", "a", "-", "R", "u", "n", "t", "i", "m", "e",
      "-", "A", "w", "s", "-", "R", "e", "q", "u", "e", "s", "t", "-", "I",
      "d", ":", " ", "r", "1", CR, LF>>

LineRequestId2 ==
    <<"l", "a", "m", "b", "d", "a", "-", "r", "u", "n", "t", "i", "m", "e",
      "-", "a", "w", "s", "-", "r", "e", "q", "u", "e", "s", "t", "-", "i",
      "d", ":", "r", "2", CR, LF>>

LineChunked ==
    <<"T", "r", "a", "n", "s", "f", "e", "r", "-", "E", "n", "c", "o", "d",
      "i", "n", "g", ":", " ", "c", "h", "u", "n", "k", "e", "d", CR, LF>>

LineChunkedUpper ==
    <<"T", "R", "A", "N", "S", "F", "E", "R", "-", "E", "N", "C", "O", "D",
      "I", "N", "G", ":", " ", "c", "h", "u", "n", "k", "e", "d", CR, LF>>

LineLength ==
    <<"c", "o", "n", "t", "e", "n", "t", "-", "l", "e", "n", "g", "t", "h",
      ":", " ", "5", CR, LF>>

LineLengthBad ==
    <<"C", "o", "n", "t", "e", "n", "t", "-", "L", "e", "n", "g", "t", "h",
      ":", " ", "x", CR, LF>>

LineNoColon ==
    <<"X", "-", "J", "u", "n", "k", CR, LF>>

HeaderLines ==
    {LineRequestId1, LineRequestId2, LineChunked, LineChunkedUpper, LineLength,
     LineLengthBad, LineNoColon}

RECURSIVE SeqsUpTo(_, _)
SeqsUpTo(S, n) ==
    IF n = 0 THEN {<<>>}
    ELSE LET shorter == SeqsUpTo(S, n - 1)
         IN  shorter \cup {Append(q, x) : q \in shorter, x \in S}

HeaderBlocks == SeqsUpTo(HeaderLines, MaxHeaders)

(***************************************************************************)
(* The poll loop: run, run_inner (lib.rs 116-180) over get, post and       *)
(* post_error (http.rs 12-106), one connection step at a time.  Decoding   *)
(* the event, encoding the response and the handler are the caller's: each *)
(* is a choice among its outcomes.                                         *)
(***************************************************************************)
EnvUnset == "unset"
EnvNotAnAddress == "not an address"
EnvValues == {EnvUnset, EnvNotAnAddress, "127.0.0.1:9001"}

Events == {"event"}

\* what the handler returns: Ok(value) or Err(e), e with a message
NotCalled == [tag |-> "none", value |-> "", message |-> ""]
HandlerResults ==
    { [tag |-> "ok", value |-> "response a", message |-> ""],
      [tag |-> "ok", value |-> "response b", message |-> ""],
      [tag |-> "err", value |-> "", message |-> "handler failed"] }

\* std::any::type_name::<E>()
HandlerErrorType == "E"

\* request bodies: a serialized value, or the two-field object of post_error
NoBody == [json |-> "none", value |-> "", errorType |-> "", errorMessage |-> ""]
ValueBody(v) == [json |-> "value", value |-> v, errorType |-> "", errorMessage |-> ""]
ErrorBody(ty, msg) ==
    [json |-> "Error", value |-> "", errorType |-> ty, errorMessage |-> msg]

InitErrorPath == <<"init/error">>
ResponsePath(id) == <<"invocation/", id, "/response">>
ErrorPath(id) == <<"invocation/", id, "/error">>

NoCall == [fn |-> "none", path |-> <<>>, body |-> NoBody]

\* run, lines 131-136: the report of inner_err
InitErrorCall(e) ==
    [fn |-> "post_error", path |-> InitErrorPath,
     body |-> ErrorBody("minlambda::Error", e.err)]

\* run_inner posting every handler result, a failure too, to .../response
ResponseCallOnePath(id, hr) ==
    IF hr.tag = "ok"
    THEN [fn |-> "post", path |-> ResponsePath(id), body |-> ValueBody(hr.value)]
    ELSE [fn |-> "post_error", path |-> ResponsePath(id),
          body |-> ErrorBody(HandlerErrorType, hr.message)]

\* run_inner, lines 167-179: the call the handler's result selects
ResponseCall(id, hr) ==
    IF hr.tag = "ok"
    THEN [fn |-> "post", path |-> ResponsePath(id), body |-> ValueBody(hr.value)]
    ELSE [fn |-> "post_error", path |-> ErrorPath(id),
          body |-> ErrorBody(HandlerErrorType, hr.message)]

\* the 12 bytes a server may answer with, or fewer when it closes early
LoopStatusInputs ==
    { StatusPrefix \o <<"2", "0", "0">>,
      StatusPrefix \o <<"2", "0", "2">>,
      StatusPrefix \o <<"4", "0", "4">>,
      StatusPrefix \o <<"5", "0", "0">>,
      <<"H", "T", "T", "P", "/", "1", ".", "0", " ", "2", "0", "0">>,
      <<>> }

(***************************************************************************)
(* The state before anything has run                                       *)
(***************************************************************************)
\* Body as get builds it for a chunked response (http.rs 55-59), nothing on
\* the connection yet
InitCodecIdle ==
    /\ producer = "none"
    /\ stream = <<>>
    /\ payload = <<>>
    /\ nchunks = 0
    /\ zeroWrite = FALSE
    /\ finished = FALSE
    /\ pos = 0
    /\ remaining = 0
    /\ chunked = TRUE
    /\ out = <<>>
    /\ ret = NoResult
    /\ firstEnd = "none"

InitStatusIdle ==
    /\ buf = <<>>
    /\ status = NoResult

InitLoopIdle ==
    /\ pc = "setup"
    /\ env = EnvUnset
    /\ panicMsg = ""
    /\ open = 0
    /\ reqs = 0
    /\ headers = <<>>
    /\ scanned = FALSE
    /\ request_id = None
    /\ length = None
    /\ event = ""
    /\ handlerRes = NotCalled
    /\ calls = 0
    /\ call = NoCall
    /\ posts = <<>>
    /\ getOk = "none"
    /\ innerErr = NoResult
    /\ reportRes = NoResult

(***************************************************************************)
(* The codec specification: a producer fills the connection with chunk     *)
(* frames and closes; then the reader calls Body::read with caller buffers *)
(* of 1..MaxBuf bytes.                                                     *)
(***************************************************************************)
PayloadCycle == <<"0", CR, LF, "a">>

\* a payload of n bytes: the cycle "0\r\na" started at offset k, so that a
\* payload begins like the terminal chunk (k = 0) or like a CRLF (k = 1)
Pattern(k, n) == [i \in 1..n |-> PayloadCycle[((k + i - 1) % 4) + 1]]

ChunkLens == (1..MaxLen) \cup {Radix - 1, Radix, Radix + 1}

Payloads == {Pattern(k, n) : k \in {0, 1}, n \in ChunkLens}

\* the chunk extension of the length line "5;name=value\r\n"
ChunkExtension == <<";", "n", "a", "m", "e", "=", "v", "a", "l", "u", "e">>

\* the Content-Length values sent with a body b: zero, fewer bytes than, as
\* many as, and more than the connection supplies
ContentLengths(b) == {0, Len(b), Len(b) + 1} \cup {n \in {Len(b) - 1} : n >= 0}

InitCodec ==
    /\ InitCodecIdle
    /\ InitStatusIdle
    /\ InitLoopIdle

readerVars == <<pos, remaining, chunked, out, ret, firstEnd>>

\* ChunkedWriter::write(b), zero-byte writes included
Write(b) ==
    /\ producer \in {"none", "writer"}
    /\ ~finished
    /\ nchunks < MaxChunks
    /\ producer' = "writer"
    /\ stream' = stream \o WriteFrame(b)
    /\ payload' = payload \o b
    /\ nchunks' = nchunks + 1
    /\ zeroWrite' = (zeroWrite \/ b = <<>>)
    /\ UNCHANGED <<finished, readerVars, statusVars, loopVars>>

\* ChunkedWriter::finish
Finish ==
    /\ producer \in {"none", "writer"}
    /\ ~finished
    /\ producer' = "writer"
    /\ stream' = stream \o FinishFrame
    /\ finished' = TRUE
    /\ UNCHANGED <<payload, nchunks, zeroWrite, readerVars, statusVars, loopVars>>

\* a server sends one chunk of a response body: an upper-case, zero-padded
\* length line, the payload (one byte or more) and CRLF
ServerChunk(b) ==
    /\ producer \in {"none", "server"}
    /\ ~finished
    /\ nchunks < MaxChunks
    /\ b # <<>>
    /\ producer' = "server"
    /\ stream' = stream \o FormatHexUpperPadded(Len(b)) \o <<CR, LF>> \o b \o <<CR, LF>>
    /\ payload' = payload \o b
    /\ nchunks' = nchunks + 1
    /\ UNCHANGED <<zeroWrite, finished, readerVars, statusVars, loopVars>>

\* the server sends the terminal chunk and closes
ServerEnd ==
    /\ producer \in {"none", "server", "extension"}
    /\ ~finished
    /\ producer' = IF producer = "none" THEN "server" ELSE producer
    /\ stream' = stream \o <<"0", CR, LF, CR, LF>>
    /\ finished' = TRUE
    /\ UNCHANGED <<payload, nchunks, zeroWrite, readerVars, statusVars, loopVars>>

\* a server sends a first chunk whose length line carries a chunk extension
ServerChunkExt(b) ==
    /\ producer = "none"
    /\ ~finished
    /\ producer' = "extension"
    /\ stream' = FormatHex(Len(b)) \o ChunkExtension \o <<CR, LF>> \o b \o <<CR, LF>>
    /\ payload' = b
    /\ nchunks' = 1
    /\ UNCHANGED <<zeroWrite, finished, readerVars, statusVars, loopVars>>

\* the connection ends c bytes before the end of the first chunk of a
\* response body: inside its closing CRLF, or inside its payload
ServerCut(c) ==
    /\ producer = "server"
    /\ ~finished
    /\ nchunks = 1
    /\ producer' = "truncated"
    /\ stream' = SubSeq(stream, 1, Len(stream) - c)
    /\ finished' = TRUE
    /\ UNCHANGED <<payload, nchunks, zeroWrite, readerVars, statusVars, loopVars>>

\* a server sends a body of b under Content-Length: n and closes; get builds
\* the Body with remaining = n and chunked = false, lines 50-54
ServerFixed(b, n) ==
    /\ producer = "none"
    /\ ~finished
    /\ producer' = "fixed"
    /\ stream' = b
    /\ payload' = SubSeq(b, 1, Min(n, Len(b)))
    /\ chunked' = FALSE
    /\ remaining' = n
    /\ finished' = TRUE
    /\ UNCHANGED <<nchunks, zeroWrite, pos, out, ret, firstEnd, statusVars, loopVars>>

\* one call of Body::read with a caller buffer of buflen bytes
Read(buflen, k) ==
    /\ finished
    /\ LET r == BodyRead(stream, pos, remaining, chunked, buflen, k)
       IN  /\ pos' = r.pos
           /\ remaining' = r.remaining
           /\ ret' = r.res
           /\ out' = out \o r.data
           /\ firstEnd' = IF firstEnd # "none" THEN firstEnd
                          ELSE IF ~r.res.ok THEN "err"
                          ELSE IF r.res.val = 0 THEN "eos"
                          ELSE "none"
    /\ UNCHANGED <<producer, stream, payload, nchunks, zeroWrite, finished,
                   chunked, statusVars, loopVars>>

NextCodec ==
    \/ \E b \in Payloads \cup {<<>>} : Write(b)
    \/ Finish
    \/ \E b \in Payloads : ServerChunk(b)
    \/ ServerEnd
    \/ \E b \in Payloads : ServerChunkExt(b)
    \/ \E c \in 1..MaxCut : ServerCut(c)
    \/ \E b \in Payloads \cup {<<>>} : \E n \in ContentLengths(b) : ServerFixed(b, n)
    \/ \E buflen \in 1..MaxBuf : \E k \in 1..buflen : Read(buflen, k)

SpecCodec == InitCodec /\ [][NextCodec]_vars

(***************************************************************************)
(* The status specification: every response prefix of the set below is     *)
(* offered to check_response_code.                                         *)
(***************************************************************************)
StatusHeads ==
    { StatusPrefix,
      <<"H", "T", "T", "P", "/", "1", ".", "0", " ">>,
      <<"h", "t", "t", "p", "/", "1", ".", "1", " ">>,
      <<"H", "T", "T", "P", "/", "1", ".", "1", "\t">> }

StatusChars == {"0", "1", "3", "4", "5", "9", "+", "-", " ", "a", BadByte}

StatusInputs ==
    { h \o <<a, b, c>> : h \in StatusHeads, a \in StatusChars,
                         b \in StatusChars, c \in StatusChars }
    \cup { <<>>, SubSeq(StatusPrefix \o <<"2", "0", "0">>, 1, 11) }

InitStatus ==
    /\ buf \in StatusInputs
    /\ status = NoResult
    /\ InitCodecIdle
    /\ InitLoopIdle

CheckStatus ==
    /\ status = NoResult
    /\ status' = CheckResponseCode(buf)
    /\ UNCHANGED <<buf, codecVars, loopVars>>

NextStatus == CheckStatus

SpecStatus == InitStatus /\ [][NextStatus]_vars

(***************************************************************************)
(* The loop specification                                                  *)
(***************************************************************************)
Init ==
    /\ pc = "setup"
    /\ env \in EnvValues
    /\ panicMsg = ""
    /\ open = 0
    /\ reqs = 0
    /\ headers = <<>>
    /\ scanned = FALSE
    /\ request_id = None
    /\ length = None
    /\ event = ""
    /\ handlerRes = NotCalled
    /\ calls = 0
    /\ call = NoCall
    /\ posts = <<>>
    /\ getOk = "none"
    /\ innerErr = NoResult
    /\ reportRes = NoResult
    /\ InitCodecIdle
    /\ InitStatusIdle

\* run, lines 123-126
Setup ==
    /\ pc = "setup"
    /\ IF env = EnvUnset
       THEN pc' = "panic" /\ panicMsg' = "could not get $AWS_LAMBDA_RUNTIME_API"
       ELSE IF env = EnvNotAnAddress
       THEN /\ pc' = "panic"
            /\ panicMsg' = "could not parse $AWS_LAMBDA_RUNTIME_API as SocketAddr"
       ELSE pc' = "get_connect" /\ panicMsg' = panicMsg
    /\ UNCHANGED <<env, open, reqs, headers, scanned, request_id, length, event,
                   handlerRes, calls, call, posts, getOk, innerErr, reportRes>>
    /\ UNCHANGED <<codecVars, statusVars>>

\* run dropping the error of a failed get and starting over
FailGetSilent(e) ==
    /\ getOk' = "failed"
    /\ innerErr' = e
    /\ call' = InitErrorCall(e)
    /\ pc' = "get_connect"

\* get returns Err(e): run_inner returns it (and_then skips the handler) and
\* run goes on to report it, lines 130-136
FailGet(e) ==
    /\ getOk' = "failed"
    /\ innerErr' = e
    /\ call' = InitErrorCall(e)
    /\ pc' = "post_connect"

\* the connection kept open after the exchange
KeepConnection ==
    /\ open' = open
    /\ reqs' = reqs

\* the connection of the exchange goes out of scope
DropConnection ==
    /\ open' = open - 1
    /\ reqs' = 0

\* get, line 16: http_start connects; a new cycle begins
GetConnect ==
    /\ pc = "get_connect"
    /\ headers' = <<>>
    /\ scanned' = FALSE
    /\ request_id' = None
    /\ length' = None
    /\ event' = ""
    /\ handlerRes' = NotCalled
    /\ calls' = 0
    /\ posts' = <<>>
    /\ reportRes' = NoResult
    /\ \E connected \in BOOLEAN :
         IF connected
         THEN /\ open' = open + 1
              /\ reqs' = 0
              /\ pc' = "get_send"
              /\ getOk' = "none"
              /\ innerErr' = NoResult
              /\ call' = NoCall
         ELSE /\ FailGet(Err("connection refused"))
              /\ UNCHANGED <<open, reqs>>
    /\ UNCHANGED <<env, panicMsg, codecVars, statusVars>>

\* get, lines 16-17: the request line and headers are written and flushed
GetSend ==
    /\ pc = "get_send"
    /\ \E sent \in BOOLEAN :
         IF sent
         THEN /\ reqs' = reqs + 1
              /\ pc' = "get_status"
              /\ UNCHANGED <<open, getOk, innerErr, call>>
         ELSE /\ DropConnection
              /\ FailGet(Err("broken pipe"))
    /\ UNCHANGED <<env, panicMsg, headers, scanned, request_id, length, event,
                   handlerRes, calls, posts, reportRes, codecVars, statusVars>>

\* get, line 18
GetStatus ==
    /\ pc = "get_status"
    /\ \E b \in LoopStatusInputs :
         LET r == CheckResponseCode(b)
         IN  IF r.ok
             THEN /\ pc' = "get_headers"
                  /\ UNCHANGED <<open, reqs, getOk, innerErr, call>>
             ELSE /\ DropConnection
                  /\ FailGet(r)
    /\ UNCHANGED <<env, panicMsg, headers, scanned, request_id, length, event,
                   handlerRes, calls, posts, reportRes, codecVars, statusVars>>

\* get with the second check of lines 47-49 left out
HeadersResultNoFraming(r) ==
    IF r.request_id = None THEN Err("missing request ID") ELSE Ok(0)

\* get, lines 47-49: the ok_or_else checks after the header block
HeadersResult(r) ==
    IF r.request_id = None
    THEN Err("missing request ID")
    ELSE IF r.length = None
    THEN Err("can't determine body length")
    ELSE Ok(0)

\* get, lines 20-49: the header block is read and scanned, then the request
\* id and the framing mode are required
GetHeaders ==
    /\ pc = "get_headers"
    /\ \E hs \in HeaderBlocks, arrival \in {"complete", "reset", "closed"} :
         LET r == ScanHeaders(hs, NoHeaders)
             res == HeadersResult(r)
         IN  CASE arrival = "reset" ->
                  /\ DropConnection
                  /\ FailGet(Err("connection reset"))
                  /\ UNCHANGED <<headers, scanned, request_id, length>>
               [] arrival = "closed" ->
                  /\ headers' = hs
                  /\ request_id' = r.request_id
                  /\ length' = r.length
                  /\ pc' = "get_headers_eof"
                  /\ UNCHANGED <<scanned, open, reqs, getOk, innerErr, call>>
               [] arrival = "complete" ->
                  /\ headers' = hs
                  /\ scanned' = TRUE
                  /\ request_id' = r.request_id
                  /\ length' = r.length
                  /\ IF res.ok
                     THEN /\ pc' = "get_body"
                          /\ UNCHANGED <<open, reqs, getOk, innerErr, call>>
                     ELSE DropConnection /\ FailGet(res)
    /\ UNCHANGED <<env, panicMsg, event, handlerRes, calls, posts, reportRes,
                   codecVars, statusVars>>

\* get, lines 24-29, once the peer has closed the connection before the blank
\* line: read_until returns Ok(0) and leaves buf empty, buf is not "\r\n",
\* split_header finds no colon, and the loop starts over
GetHeadersEof ==
    /\ pc = "get_headers_eof"
    /\ UNCHANGED vars

\* get, lines 48-62: serde_json::from_reader consumes the Body, which owns
\* the connection
GetBody ==
    /\ pc = "get_body"
    /\ DropConnection
    /\ \E decoded \in {"ok", "syntax error", "connection reset"} :
         IF decoded = "ok"
         THEN /\ event' \in Events
              /\ getOk' = "ok"
              /\ pc' = "handle"
              /\ UNCHANGED <<innerErr, call>>
         ELSE /\ FailGet(Err(decoded))
              /\ UNCHANGED event
    /\ UNCHANGED <<env, panicMsg, headers, scanned, request_id, length,
                   handlerRes, calls, posts, reportRes, codecVars, statusVars>>

\* run_inner, lines 167-179: the handler runs and its result selects the call
Handle ==
    /\ pc = "handle"
    /\ \E hr \in HandlerResults :
         /\ handlerRes' = hr
         /\ call' = ResponseCall(request_id[1], hr)
    /\ calls' = calls + 1
    /\ pc' = "post_connect"
    /\ UNCHANGED <<env, panicMsg, open, reqs, headers, scanned, request_id, length,
                   event, posts, getOk, innerErr, reportRes, codecVars, statusVars>>

\* run panicking on the failure of any POST
EndPostStrict(r) ==
    /\ reportRes' = IF call.path = InitErrorPath THEN r ELSE reportRes
    /\ IF r.ok
       THEN pc' = "get_connect" /\ panicMsg' = panicMsg
       ELSE /\ pc' = "panic"
            /\ panicMsg' = "failed to report initialization error"
    /\ UNCHANGED <<call, innerErr>>

\* run ignoring the failure of the POST to init/error
EndPostForgiving(r) ==
    IF call.path = InitErrorPath
    THEN /\ reportRes' = r
         /\ pc' = "get_connect"
         /\ UNCHANGED <<panicMsg, call, innerErr>>
    ELSE IF r.ok
    THEN /\ pc' = "get_connect"
         /\ UNCHANGED <<panicMsg, call, innerErr, reportRes>>
    ELSE /\ innerErr' = r
         /\ call' = InitErrorCall(r)
         /\ pc' = "post_connect"
         /\ UNCHANGED <<panicMsg, reportRes>>

\* run sending the POST of the invocation again after it failed
EndPostRetry(r) ==
    IF call.path = InitErrorPath
    THEN /\ reportRes' = r
         /\ IF r.ok
            THEN pc' = "get_connect" /\ panicMsg' = panicMsg
            ELSE /\ pc' = "panic"
                 /\ panicMsg' = "failed to report initialization error"
         /\ UNCHANGED <<call, innerErr>>
    ELSE IF r.ok
    THEN /\ pc' = "get_connect"
         /\ UNCHANGED <<panicMsg, call, innerErr, reportRes>>
    ELSE /\ innerErr' = r
         /\ pc' = "post_connect"
         /\ UNCHANGED <<panicMsg, call, reportRes>>

\* run returning after the first invocation it has answered
EndPostOnce(r) ==
    IF call.path = InitErrorPath
    THEN /\ reportRes' = r
         /\ IF r.ok
            THEN pc' = "get_connect" /\ panicMsg' = panicMsg
            ELSE /\ pc' = "panic"
                 /\ panicMsg' = "failed to report initialization error"
         /\ UNCHANGED <<call, innerErr>>
    ELSE IF r.ok
    THEN /\ pc' = "returned"
         /\ UNCHANGED <<panicMsg, call, innerErr, reportRes>>
    ELSE /\ innerErr' = r
         /\ call' = InitErrorCall(r)
         /\ pc' = "post_connect"
         /\ UNCHANGED <<panicMsg, reportRes>>

\* post / post_error returned r.  run_inner's error goes to run, which
\* reports it (lines 130-136); a failed report panics (137-140); otherwise
\* the loop starts over.
EndPost(r) ==
    IF call.path = InitErrorPath
    THEN /\ reportRes' = r
         /\ IF r.ok
            THEN pc' = "get_connect" /\ panicMsg' = panicMsg
            ELSE /\ pc' = "panic"
                 /\ panicMsg' = "failed to report initialization error"
         /\ UNCHANGED <<call, innerErr>>
    ELSE IF r.ok
    THEN /\ pc' = "get_connect"
         /\ UNCHANGED <<panicMsg, call, innerErr, reportRes>>
    ELSE /\ innerErr' = r
         /\ call' = InitErrorCall(r)
         /\ pc' = "post_connect"
         /\ UNCHANGED <<panicMsg, reportRes>>

\* post, line 69 / post_error, line 75: http_start connects
PostConnect ==
    /\ pc = "post_connect"
    /\ posts' = Append(posts, [path |-> call.path, body |-> call.body])
    /\ \E connected \in BOOLEAN :
         IF connected
         THEN /\ open' = open + 1
              /\ reqs' = 0
              /\ pc' = "post_send"
              /\ UNCHANGED <<panicMsg, call, innerErr, reportRes>>
         ELSE /\ EndPost(Err("connection refused"))
              /\ UNCHANGED <<open, reqs>>
    /\ UNCHANGED <<env, headers, scanned, request_id, length, event, handlerRes,
                   calls, getOk, codecVars, statusVars>>

\* post, lines 69-71 / post_error, lines 75-83: the request line, the headers
\* and the chunked body are written, finished and flushed
PostSend ==
    /\ pc = "post_send"
    /\ \E sent \in BOOLEAN :
         IF sent
         THEN /\ reqs' = reqs + 1
              /\ pc' = "post_status"
              /\ UNCHANGED <<open, panicMsg, call, innerErr, reportRes>>
         ELSE /\ DropConnection
              /\ EndPost(Err("broken pipe"))
    /\ UNCHANGED <<env, headers, scanned, request_id, length, event, handlerRes,
                   calls, posts, getOk, codecVars, statusVars>>

\* post, line 71 / post_error, line 83
PostStatus ==
    /\ pc = "post_status"
    /\ DropConnection
    /\ \E b \in LoopStatusInputs : EndPost(CheckResponseCode(b))
    /\ UNCHANGED <<env, headers, scanned, request_id, length, event, handlerRes,
                   calls, posts, getOk, codecVars, statusVars>>

Next ==
    \/ Setup
    \/ GetConnect
    \/ GetSend
    \/ GetStatus
    \/ GetHeaders
    \/ GetHeadersEof
    \/ GetBody
    \/ Handle
    \/ PostConnect
    \/ PostSend
    \/ PostStatus

Spec == Init /\ [][Next]_vars

\* run is one thread that never waits for anything but its own blocking
\* calls: a step that can be taken is taken
SpecFair == Spec /\ WF_vars(Next)

(***************************************************************************)
(* Properties of the wire codec                                            *)
(***************************************************************************)
IsPrefix(a, b) == Len(a) <= Len(b) /\ SubSeq(b, 1, Len(a)) = a

\* the stream is zero or more chunks of one byte or more, then the terminal
\* chunk
WellFormedChunks == producer \in {"writer", "server"} /\ finished /\ ~zeroWrite

\* C1: on a stream of chunks "{hex}\r\n", payload, CRLF ended by "0\r\n\r\n",
\* every chunked Body::read up to the end of the body succeeds and returns
\* exactly the next payload bytes (never a framing byte), and it returns 0
\* exactly when the whole payload has been delivered.
ChunkedReadDeliversPayload ==
    [][ (WellFormedChunks /\ chunked /\ firstEnd = "none") =>
          /\ ret'.ok
          /\ Len(out) + ret'.val <= Len(payload)
          /\ out' = out \o SubSeq(payload, Len(out) + 1, Len(out) + ret'.val)
          /\ (ret'.val = 0 <=> out = payload) ]_vars

ChunkedReadWitness ==
    /\ producer = "server"
    /\ WellFormedChunks
    /\ nchunks >= 2
    /\ Len(payload) > Radix
    /\ firstEnd = "eos"
    /\ ret = Ok(0)
    /\ out = payload

\* C2: what ChunkedWriter emits for writes of one byte or more followed by
\* finish, the chunked reader decodes to the bytes written and then
\* end-of-stream, without an error (the empty body included).
WriterReaderRoundTrip ==
    (producer = "writer" /\ finished /\ ~zeroWrite) =>
        /\ firstEnd # "err"
        /\ IsPrefix(out, payload)
        /\ (firstEnd = "eos" => out = payload)
        /\ (ret.ok /\ ret.val = 0 => out = payload)
        /\ (pos = Len(stream) => firstEnd # "none")

RoundTripWitness ==
    /\ producer = "writer"
    /\ ~zeroWrite
    /\ nchunks >= 2
    /\ Len(payload) > Radix
    /\ firstEnd = "eos"
    /\ out = payload

(***************************************************************************)
(* Properties of check_response_code                                       *)
(***************************************************************************)
IsAsciiDigit(c) == c \in {"0", "1", "2", "3", "4", "5", "6", "7", "8", "9"}

DigitOf(c) == CHOOSE d \in 0..9 : ToString(d) = c

\* "HTTP/1.1 " followed by exactly three ASCII digits
IsStatusLine(b) ==
    /\ Len(b) = 12
    /\ SubSeq(b, 1, 9) = <<"H", "T", "T", "P", "/", "1", ".", "1", " ">>
    /\ \A i \in 10..12 : IsAsciiDigit(b[i])

StatusCodeOf(b) == 100 * DigitOf(b[10]) + 10 * DigitOf(b[11]) + DigitOf(b[12])

\* C3: every 12-byte prefix that is not "HTTP/1.1 " and three ASCII digits
\* fails with "malformed HTTP response".
MalformedUnlessThreeDigits ==
    (status # NoResult /\ Len(buf) = 12 /\ ~IsStatusLine(buf)) =>
        status = Err("malformed HTTP response")

\* C4: a well-formed status line fails, with the code in the message, exactly
\* when the code is 400 or more; every lower code is accepted.
StatusOutcome ==
    (status # NoResult /\ IsStatusLine(buf)) =>
        IF StatusCodeOf(buf) >= 400
        THEN status = Err("received HTTP error code " \o ToString(StatusCodeOf(buf)))
        ELSE status = Ok(0)

StatusOutcomeWitness ==
    /\ buf = <<"H", "T", "T", "P", "/", "1", ".", "1", " ", "4", "0", "0">>
    /\ status = Err("received HTTP error code 400")

(***************************************************************************)
(* Properties of the poll loop                                             *)
(***************************************************************************)
\* the POSTs of this cycle to an invocation/{id}/... path
InvocationPosts == SelectSeq(posts, LAMBDA e : e.path[1] = "invocation/")

\* C5: once the handler has returned, the one POST addressed to the
\* invocation goes to .../response with the success value when the handler
\* succeeded, and to .../error with the failure's type label and message
\* when it failed; never to the other path.
ResponseRouting ==
    (getOk = "ok" /\ handlerRes.tag # "none") =>
        /\ Len(InvocationPosts) <= 1
        /\ (pc = "post_connect" /\ posts = <<>>) \/ Len(InvocationPosts) = 1
        /\ \A i \in 1..Len(InvocationPosts) :
             LET e == InvocationPosts[i]
             IN  IF handlerRes.tag = "ok"
                 THEN /\ e.path[3] = "/response"
                      /\ e.body.json = "value"
                      /\ e.body.value = handlerRes.value
                 ELSE /\ e.path[3] = "/error"
                      /\ e.body.json = "Error"
                      /\ e.body.errorType = HandlerErrorType
                      /\ e.body.errorMessage = handlerRes.message

ResponseRoutingWitness ==
    /\ pc = "post_status"
    /\ handlerRes.tag = "err"
    /\ Len(posts) = 1
    /\ posts[1].path[3] = "/error"

\* the request-id header lines a server of the model sends, and their values
RequestIdLines == {i \in 1..Len(headers) : headers[i] \in {LineRequestId1, LineRequestId2}}

FirstRequestIdSent ==
    LET i == CHOOSE j \in RequestIdLines : \A k \in RequestIdLines : j <= k
    IN  IF headers[i] = LineRequestId1 THEN <<"r", "1">> ELSE <<"r", "2">>

\* C6: every POST to an invocation/{id}/... path carries the id of the
\* request-id header of this cycle's successful GET; a GET response without
\* that header fails, the handler is not invoked and no such POST is made.
CorrelationId ==
    /\ \A i \in 1..Len(posts) :
         posts[i].path[1] = "invocation/" =>
             /\ getOk = "ok"
             /\ RequestIdLines # {}
             /\ posts[i].path[2] = FirstRequestIdSent
    /\ (scanned /\ RequestIdLines = {}) =>
           /\ getOk = "failed"
           /\ calls = 0
           /\ handlerRes = NotCalled

CorrelationIdWitness ==
    /\ Cardinality({headers[i] : i \in RequestIdLines}) = 2
    /\ Len(posts) >= 1
    /\ posts[1].path[1] = "invocation/"

InitErrorPost == [path |-> <<"init/error">>,
                  body |-> ErrorBody("minlambda::Error", innerErr.err)]

\* what a failed GET leads to in every case: no handler call, and the error
\* on its way to init/error
FetchFailureReported ==
    /\ calls = 0
    /\ handlerRes = NotCalled
    /\ call.path = <<"init/error">>
    /\ pc \in {"post_connect", "post_send", "post_status", "get_connect", "panic"}
    /\ posts = IF pc = "post_connect" THEN <<>> ELSE <<InitErrorPost>>
    /\ (pc = "get_connect" => reportRes.ok)

\* C7 as stated: after a failed GET the loop reports to init/error and
\* restarts at Fetching without crashing, the handler not invoked.
FetchFailureNeverCrashes ==
    getOk = "failed" => (FetchFailureReported /\ pc # "panic")

\* C7 as amended: after a failed GET the handler is not invoked and the loop
\* POSTs the error to init/error; it restarts at Fetching when that POST
\* succeeds and panics when that POST fails.
FetchFailureRecovery ==
    getOk = "failed" =>
        /\ FetchFailureReported
        /\ (pc = "panic" => (reportRes # NoResult /\ ~reportRes.ok))
        /\ (reportRes # NoResult /\ ~reportRes.ok => pc = "panic")

FetchFailureWitness ==
    /\ getOk = "failed"
    /\ innerErr = Err("received HTTP error code 404")
    /\ pc = "get_connect"
    /\ reportRes.ok

SetupPanics == {"could not get $AWS_LAMBDA_RUNTIME_API",
                "could not parse $AWS_LAMBDA_RUNTIME_API as SocketAddr"}

\* C8 as stated: nothing but the setup failure ever aborts the loop.
OnlySetupAborts ==
    pc = "panic" => (panicMsg \in SetupPanics /\ getOk = "none")

\* C8 as amended: the loop is aborted only by the setup failure, before the
\* first cycle, or by the failure of the POST to init/error; a failure of a
\* GET, of a response POST or of an error POST never aborts it.
AbortOnlyFromSetupOrReport ==
    [][ (pc' = "panic" /\ pc # "panic") =>
          \/ pc = "setup"
          \/ /\ pc \in {"post_connect", "post_send", "post_status"}
             /\ call.path = <<"init/error">> ]_vars

AbortWitness ==
    /\ pc = "panic"
    /\ getOk = "ok"
    /\ Len(posts) = 2
    /\ posts[1].path[1] = "invocation/"
    /\ posts[2].path = <<"init/error">>

\* C9: run panics exactly when AWS_LAMBDA_RUNTIME_API is missing or is not a
\* socket address, or when the POST to init/error fails; a failed cycle whose
\* report succeeds does not panic.
PanicConditions ==
    /\ pc = "panic" =>
           \/ /\ env \in {EnvUnset, EnvNotAnAddress}
              /\ panicMsg \in SetupPanics
              /\ posts = <<>> /\ getOk = "none"
           \/ /\ env \notin {EnvUnset, EnvNotAnAddress}
              /\ panicMsg = "failed to report initialization error"
              /\ reportRes # NoResult /\ ~reportRes.ok
              /\ posts[Len(posts)].path = <<"init/error">>
    /\ (env \in {EnvUnset, EnvNotAnAddress} /\ pc # "setup") => pc = "panic"
    /\ (reportRes # NoResult /\ ~reportRes.ok) => pc = "panic"
    /\ reportRes.ok => pc # "panic"

PanicWitness ==
    /\ pc = "panic"
    /\ panicMsg = "failed to report initialization error"
    /\ getOk = "failed"
    /\ reportRes = Err("received HTTP error code 500")

\* C10: at most one connection is open at any time, none while the handler
\* runs or between two exchanges, and each connection carries one request.
OneConnection ==
    /\ open <= 1
    /\ reqs <= open
    /\ pc \in {"setup", "get_connect", "handle", "post_connect", "panic"} => open = 0
    /\ pc \in {"get_send", "post_send"} => (open = 1 /\ reqs = 0)
    /\ pc \in {"get_status", "get_headers", "get_body", "post_status"} =>
           (open = 1 /\ reqs = 1)

OneConnectionWitness ==
    /\ pc = "post_status"
    /\ getOk = "ok"
    /\ calls = 1
    /\ open = 1
    /\ reqs = 1

\* the framing header lines a server of the model sends: Transfer-Encoding
\* with the value chunked, or Content-Length with a number
FramingLines ==
    {i \in 1..Len(headers) : headers[i] \in {LineChunked, LineChunkedUpper, LineLength}}

FirstFramingSent ==
    LET i == CHOOSE j \in FramingLines : \A k \in FramingLines : j <= k
    IN  IF headers[i] = LineLength THEN <<5>> ELSE <<>>

\* C11: whatever the letter case of the header names, the request id is the
\* value of the first request-id line and the framing mode is that of the
\* first line that is Transfer-Encoding: chunked or Content-Length with a
\* number; later such lines, Content-Length lines without a number and lines
\* without a colon change nothing.
HeaderScanFirstWins ==
    scanned =>
        /\ request_id = IF RequestIdLines = {} THEN <<>> ELSE <<FirstRequestIdSent>>
        /\ length = IF FramingLines = {} THEN <<>> ELSE <<FirstFramingSent>>

HeaderScanWitness ==
    /\ scanned
    /\ headers = <<LineLengthBad, LineChunkedUpper, LineLength>>
    /\ length = <<<<>>>>

HeaderBlockErrors == {"missing request ID", "can't determine body length"}

\* C12: when the header block ended without a request-id line or without a
\* line that fixes the framing mode, get fails with the matching error, the
\* body stage is never entered and the handler gets nothing; when both are
\* present the header stage does not fail, whatever other lines (lines
\* without a colon included) the block holds.
HeaderBlockRequired ==
    scanned =>
        IF RequestIdLines = {} \/ FramingLines = {}
        THEN /\ getOk = "failed"
             /\ innerErr.err \in HeaderBlockErrors
             /\ (innerErr.err = "missing request ID") = (RequestIdLines = {})
             /\ event = ""
             /\ calls = 0
             /\ pc \notin {"get_body", "handle"}
        ELSE \/ pc = "get_body"
             \/ getOk = "ok"
             \/ innerErr.err \notin HeaderBlockErrors

HeaderBlockWitness ==
    /\ scanned
    /\ headers = <<LineRequestId1, LineNoColon, LineLengthBad>>
    /\ innerErr.err = "can't determine body length"
    /\ pc = "post_status"

\* C13: a length line that carries a chunk extension is parsed by its length
\* part: on a stream whose first chunk is "<hex>;name=value\r\n", payload,
\* CRLF, followed by the terminal chunk, the reads end with end-of-stream and
\* never with the "invalid chunk length" error.
ChunkExtensionIgnored ==
    (producer = "extension" /\ finished) => firstEnd # "err"

\* the offset at which the first zero-length chunk of a chunk stream ends,
\* reading the frames from offset p; 0 when there is none
RECURSIVE FirstTerminalEnd(_, _)
FirstTerminalEnd(bytes, p) ==
    IF p >= Len(bytes) THEN 0
    ELSE LET line == ReadUntilLF(bytes, p)
             n == FromStrRadix(Trim(line), Radix, UsizeMax)
         IN  IF ~n.ok THEN 0
             ELSE IF n.val = 0 THEN p + Len(line) + 2
             ELSE FirstTerminalEnd(bytes, p + Len(line) + n.val + 2)

FixedLengthRead ==
    [][(producer = "fixed" /\ Len(stream) - pos >= remaining) =>
          /\ ret'.ok
          /\ ret'.val <= Min(MaxBuf, remaining)
          /\ remaining > 0 => ret'.val >= 1
          /\ remaining' = remaining - ret'.val
          /\ pos' = pos + ret'.val
          /\ out' = SubSeq(stream, 1, pos')
          /\ IsPrefix(out', payload)
          /\ remaining = 0 =>
                /\ ret'.val = 0
                /\ pos' = pos
                /\ out' = payload]_vars

FixedLengthWitness ==
    /\ producer = "fixed"
    /\ Len(payload) = Radix
    /\ Len(stream) > Len(payload)
    /\ out = payload
    /\ remaining = 0
    /\ ret = Ok(0)

\* C18: after the read that parsed the terminal chunk of a well-formed chunk
\* stream has returned 0, every read returns 0 and leaves the connection
\* where it was.
EndOfStreamSticky ==
    [][(WellFormedChunks /\ chunked /\ firstEnd = "eos") =>
          (ret' = Ok(0) /\ pos' = pos)]_vars

\* C20: a read that follows reads which all delivered data returns 0 only
\* with nothing remaining: the terminal chunk parsed, or the Content-Length
\* budget used up.
TruncatedBodyIsError ==
    [][(finished /\ firstEnd = "none" /\ ret'.ok /\ ret'.val = 0) =>
          remaining' = 0]_vars

\* C15: in a cycle the handler is called at most once and at most one POST is
\* addressed to the invocation; once that POST has been attempted, whatever
\* its outcome, the loop only completes it, reports a failure to init/error,
\* and starts the next cycle with a new GET (or panics on a failed report):
\* the handler is not called again and no second POST goes to the invocation.
ResponseNotRetried ==
    [][/\ calls' <= 1
       /\ Len(InvocationPosts') <= 1
       /\ InvocationPosts # <<>> =>
             IF pc = "get_connect"
             THEN /\ posts' = <<>>
                  /\ calls' = 0
                  /\ event' = ""
                  /\ pc' \in {"get_send", "post_connect"}
                  /\ pc' = "post_connect" => call'.path = InitErrorPath
             ELSE /\ pc' \in {"post_connect", "post_send", "post_status",
                              "get_connect", "panic"}
                  /\ calls' = calls
                  /\ InvocationPosts' = InvocationPosts]_vars

ResponseNotRetriedWitness ==
    /\ pc = "get_connect"
    /\ getOk = "ok"
    /\ calls = 1
    /\ Len(posts) = 2
    /\ Len(InvocationPosts) = 1
    /\ posts[2].path = InitErrorPath
    /\ reportRes.ok

\* no exchange has failed so far and run is alive
Healthy ==
    /\ innerErr = NoResult
    /\ pc \notin {"panic", "get_headers_eof"}

\* the steps of a cycle come in order: the handler runs only on a decoded
\* event, a POST is started only when the handler has returned, and a new GET
\* only when the one POST of the cycle has completed
CycleOrder ==
    [][Healthy' =>
          /\ (pc' = "handle" /\ pc # "handle") => (pc = "get_body" /\ calls = 0)
          /\ (pc' = "post_connect" /\ pc # "post_connect") =>
                (pc = "handle" /\ calls' = 1 /\ posts = <<>>)
          /\ (pc' = "get_connect" /\ pc # "get_connect") =>
                \/ pc = "setup"
                \/ pc = "post_status" /\ calls = 1 /\ Len(InvocationPosts) = 1
                                      /\ Len(posts) = 1]_vars

\* C17: as long as no exchange fails and the handler returns, the loop never
\* stops: every GET leads to the handler, the handler to the one POST of the
\* cycle, and that POST to the next GET, the steps coming in that order.
PollLoopProgress ==
    /\ CycleOrder
    /\ ([]Healthy) =>
          /\ (pc = "get_connect") ~> (pc = "handle")
          /\ (pc = "handle") ~> (pc = "post_status")
          /\ (pc = "post_status") ~> (pc = "get_connect")

PollLoopWitness ==
    /\ Healthy
    /\ pc = "get_connect"
    /\ calls = 1
    /\ Len(posts) = 1
    /\ posts[1].path[3] = "/response"

\* C19: once get reads the header block, it comes to an end: it goes on to
\* the body or returns an error.
HeaderScanTerminates ==
    (pc = "get_headers") ~> (pc \notin {"get_headers", "get_headers_eof"})

====
